---- MODULE Spec2Model ----
(***************************************************************************)
(* Model of the Ghostcloud deployment client (src/lib/ghostcloud.ts), the  *)
(* dashboard that renders its query (src/unnamed/part_000) and the         *)
(* application-wide QueryClient (src/.circleci/config.yml:55-78).          *)
(*                                                                         *)
(* The write path (useCreateDeployment / useUpdateDeployment /             *)
(* useRemoveDeployment) is a chain of awaits; every await is one action so *)
(* that sessions, other writes and fetches interleave exactly where the    *)
(* code can be suspended.  The read path is the "metas" query: its         *)
(* queryFn `list` plus the react-query v3 cache entry it lives in.         *)
(***************************************************************************)
EXTENDS Integers, Sequences, FiniteSets, TLC

(* ------------------------------- bounds -------------------------------- *)
MaxWrites == 2    \* mutations that may overlap (SpecRace)
MaxItems == 7     \* size of a fetched set (SpecPage)

WriteIds == 1..MaxWrites
\* Section 5 expects one write in flight at a time: Spec runs one
\* mutation, SpecRace lets MaxWrites of them overlap.
Serial == {1}
Addrs == {"a1", "a2"}
Names == {"site1"}
Ops == {"create", "update", "remove"}

(* react-query's default for queries when `new QueryClient()` is given no   *)
(* defaultOptions: retry: 3 (mutations default to retry: 0).                *)
DefaultQueryRetry == 3
DefaultMutationRetry == 0

VARIABLES
    session,     \* address held by the auth store, "" when signed out
    previous,    \* address of the session before this one, "" if none
    ledger,      \* remote: [Addrs -> [items : SUBSET Names, ver : Nat]]
    writes,      \* [WriteIds -> write record], one per mutation
    query,       \* the cache entry under key "metas"
    fetch,       \* the (single, de-duplicated) fetch of the "metas" query
    mounted,     \* the Dashboard observes the query
    displayed,   \* errors reported through displayError
    page,        \* pagination: the requested page index
    pageItems,   \* pagination: number of items of the fetched set
    pageLog,     \* pagination: the last page request and what it yielded
    args,        \* builders: the arguments of a call
    built        \* builders: what the last call returned

vars == <<session, previous, ledger, writes, query, fetch, mounted, displayed,
          page, pageItems, pageLog, args, built>>

coreVars == <<session, previous, ledger, writes, query, fetch, mounted, displayed>>
pageVars == <<page, pageItems, pageLog>>
builderVars == <<args, built>>

(* ----------------------------- values ---------------------------------- *)
\* JS `undefined` / a present value, as a sequence of length 0 / 1.
Undefined == <<>>
Some(x) == <<x>>
IsDefined(v) == Len(v) = 1
Val(v) == v[1]

\* An Error: its message and, when the message was built from a remote
\* response (lines 91-93), the code and rawLog interpolated into it.
Err(msg, detail) == [msg |-> msg, detail |-> detail]

\* The bytes of an uploaded archive, and the File the form holds.
FileBytes == <<80, 75>>
File(bytes) == [name |-> "site.zip", bytes |-> bytes]
\* fileToArrayBuffer(file): the file's content as a byte array.
fileToArrayBuffer(file) == file.bytes

\* DeploymentData (create-deployment form); `file` is optional.
Data(n, f) == [name |-> n, description |-> "desc", domain |-> "dom",
               memo |-> "memo", file |-> f]
\* DeploymentData | null: null is Undefined.
Requests == {Undefined} \cup
            {Some(Data(n, f)) : n \in Names,
                                f \in {Undefined, Some(File(FileBytes))}}

(* ------------------------- auth store (session) ------------------------ *)
\* store.getAddress(): the session's address, empty when signed out.
getAddress == session
\* store.getPrivateKey(): the key material of the session (hex string).
getPrivateKey == IF session = "" THEN <<>> ELSE <<session>>
\* The address DirectSecp256k1Wallet derives from a key (fixed prefix).
AddressOfKey(k) == k[1]

(* --------------------------- message builders -------------------------- *)
PayloadAlways(data) ==
    Some([archive |-> [type |-> "Zip",
                       content |-> IF IsDefined(data.file)
                                   THEN fileToArrayBuffer(Val(data.file))
                                   ELSE <<>>]])
\* lines 38-47 / 108-117: payload stays undefined unless data.file is set.
Payload(data) ==
    IF IsDefined(data.file)
    THEN Some([archive |-> [type |-> "Zip",
                            content |-> fileToArrayBuffer(Val(data.file))]])
    ELSE Undefined

MetaSwapped(data, creator) == [creator |-> creator, name |-> data.name,
                               description |-> data.domain,
                               domain |-> data.description]
\* lines 51-56 / 121-126: the meta literal.
Meta(data, creator) == [creator |-> creator, name |-> data.name,
                        description |-> data.description,
                        domain |-> data.domain]

createDeploymentMsg(data, creator) ==
    [typeUrl |-> "MsgCreateDeployment",
     value |-> [meta |-> Some(Meta(data, creator)), payload |-> Payload(data)]]

updateDeploymentMsg(data, creator) ==
    [typeUrl |-> "MsgUpdateDeployment",
     value |-> [meta |-> Some(Meta(data, creator)), payload |-> Payload(data)]]

removeDeploymentMsg(name, creator) ==
    [typeUrl |-> "MsgRemoveDeployment",
     value |-> [creator |-> creator, name |-> name]]

BuildMsgAlwaysCreate(op, data, creator) == createDeploymentMsg(data, creator)
\* `const msg = await ...Msg(...)` of the three operations.
BuildMsg(op, data, creator) ==
    CASE op = "create" -> createDeploymentMsg(data, creator)
      [] op = "update" -> updateDeploymentMsg(data, creator)
      [] OTHER         -> removeDeploymentMsg(data.name, creator)

\* The deployment name a message is about.
MsgName(m) == IF m.typeUrl = "MsgRemoveDeployment" THEN m.value.name
              ELSE Val(m.value.meta).name

(* ---------------------------- deployment URL -------------------------- *)
\* Configuration read from the environment (config/ghostcloud-chain).
GHOSTCLOUD_URL_SCHEME == "https"
GHOSTCLOUD_URL_DOMAIN == "example.com"

createUrlDotted(name, address) ==
    GHOSTCLOUD_URL_SCHEME \o "://" \o name \o "." \o address \o "."
        \o GHOSTCLOUD_URL_DOMAIN
\* Dashboard, lines 34-36: the template literal.
createUrl(name, address) ==
    GHOSTCLOUD_URL_SCHEME \o "://" \o name \o "-" \o address \o "."
        \o GHOSTCLOUD_URL_DOMAIN

(* ------------------------------ errors --------------------------------- *)
EmptyDataError == Err("Deployment data is empty.", <<>>)
EmptyCreatorError == Err("Creator address is empty.", <<>>)
\* Thrown by the collaborators, not by this code.
SignerError == Err("signer: invalid private key", <<>>)
ConnectError == Err("rpc: connection failed", <<>>)
FileError == Err("file: read failed", <<>>)
AccountError == Err("Failed to retrieve account from signer", <<>>)
BroadcastError == Err("rpc: broadcast failed", <<>>)
QueryError == Err("rpc: query failed", <<>>)

\* lines 91-93, 160-162, 205-207 (remove reuses the update wording).
RejectedText(op) == IF op = "create"
                    THEN "Deployment creation failed with error code"
                    ELSE "Deployment update failed with error code"
RejectedErrorBare(op, response) == Err(RejectedText(op), <<>>)
RejectedError(op, response) ==
    Err(RejectedText(op),
        <<[code |-> response.code, rawLog |-> response.rawLog]>>)

TruthyOnlyNotFound(code) == code = 5
\* `if (response.code)`: a non-zero code is truthy.
Truthy(code) == code # 0

(* --------------------------- initial state ----------------------------- *)
InitWrite == [pc |-> "idle", op |-> "none", data |-> Undefined,
              creator |-> Undefined, key |-> Undefined, msgs |-> <<>>,
              response |-> Undefined, result |-> Undefined,
              error |-> Undefined, conns |-> 0, bcasts |-> 0, invs |-> 0,
              cached |-> FALSE]   \* cached: a set was cached at the start

\* react-query's initial query state: no data, idle.
InitQuery == [exists |-> FALSE, data |-> Undefined, updated |-> FALSE,
              isInvalidated |-> FALSE, status |-> "idle",
              error |-> Undefined]

InitFetch == [pc |-> "idle", request |-> Undefined, result |-> Undefined,
              failureCount |-> 0, queries |-> 0]

InitPageVars == /\ page = 1
                /\ pageItems = 0
                /\ pageLog = Undefined

\* No builder has been called.
NoArgs == [data |-> Data("site1", Undefined), creator |-> ""]
InitBuilderVars == /\ args = NoArgs
                   /\ built = Undefined

\* The ledger holds any deployments for the addresses in A.
InitFor(A) ==
        /\ session = ""
        /\ previous = ""
        /\ \E L \in [Addrs -> SUBSET Names] :
              /\ \A a \in Addrs \ A : L[a] = {}
              /\ ledger = [a \in Addrs |-> [items |-> L[a], ver |-> 0]]
        /\ writes = [w \in WriteIds |-> InitWrite]
        /\ query = InitQuery
        /\ fetch = InitFetch
        /\ mounted = FALSE
        /\ displayed = Undefined
        /\ InitPageVars
        /\ InitBuilderVars

Init == InitFor({"a1"})
InitSession == InitFor(Addrs)

(* ------------------------- react-query: the cache ---------------------- *)
IsFetching == fetch.pc # "idle"

\* Query.fetch(): a fetch already in flight is reused (no cancelRefetch is
\* passed anywhere), otherwise the queryFn `list` starts and runs up to
\* its first await, store.getAddress().
FetchAfterFetch(f) ==
    IF f.pc # "idle" THEN f
    ELSE [InitFetch EXCEPT !.pc = "getAddress"]

\* The reducer's 'fetch' action: status becomes "loading" only while the
\* query has never received data.
QueryAfterFetch(q, f) ==
    IF f.pc # "idle" THEN q
    ELSE [q EXCEPT !.status = IF q.updated THEN q.status ELSE "loading",
                   !.error = IF q.updated THEN q.error ELSE Undefined]

QueryAfterInvalidateClearing(q, f, m) ==
    IF ~q.exists THEN q
    ELSE LET inv == [q EXCEPT !.isInvalidated = TRUE, !.data = Undefined]
         IN IF m THEN QueryAfterFetch(inv, f) ELSE inv
\* queryClient.invalidateQueries({ queryKey: "metas" }): every matching
\* query is marked invalidated, and the active ones (observed by a mounted
\* component) are refetched.
QueryAfterInvalidate(q, f, m) ==
    IF ~q.exists THEN q
    ELSE LET inv == [q EXCEPT !.isInvalidated = TRUE]
         IN IF m THEN QueryAfterFetch(inv, f) ELSE inv

FetchAfterInvalidate(q, f, m) ==
    IF q.exists /\ m THEN FetchAfterFetch(f) ELSE f

(* ------------------------------ the ledger ----------------------------- *)
\* What the remote ledger does with a transaction is outside this code;
\* it either applies the message (code 0) or rejects it (code # 0).
Applicable(m, items) ==
    IF m.typeUrl = "MsgCreateDeployment" THEN MsgName(m) \notin items
    ELSE MsgName(m) \in items

Applied(m, items) ==
    CASE m.typeUrl = "MsgCreateDeployment" -> items \cup {MsgName(m)}
      [] m.typeUrl = "MsgRemoveDeployment" -> items \ {MsgName(m)}
      [] OTHER -> items

Rejections(m, items) ==
    {[code |-> 13, rawLog |-> "insufficient fee", hash |-> 0]} \cup
    IF Applicable(m, items) THEN {}
    ELSE {[code |-> 5,
           rawLog |-> IF m.typeUrl = "MsgCreateDeployment"
                      THEN "already exists" ELSE "not found",
           hash |-> 0]}

(* ------------------------------ mutations ------------------------------ *)
InvalidatesAlways(succeeded) == TRUE
InvalidatesOnFailure(succeeded) == ~succeeded
\* useMutation({ mutationFn, onSuccess }): the callback that invalidates is
\* onSuccess, so it runs when mutationFn resolved and not when it threw.
InvalidatesOn(succeeded) == succeeded

\* The mutation settles: mutationFn resolved or threw (no retry: mutations
\* default to retry 0), then the callbacks run.
Settle(w, rec, succeeded) ==
    LET inv == InvalidatesOn(succeeded) IN
    /\ writes' = [writes EXCEPT
                    ![w] = [rec EXCEPT !.invs = IF inv THEN @ + 1 ELSE @]]
    /\ query' = IF inv THEN QueryAfterInvalidate(query, fetch, mounted)
                ELSE query
    /\ fetch' = IF inv THEN FetchAfterInvalidate(query, fetch, mounted)
                ELSE fetch
    /\ UNCHANGED <<session, previous, ledger, mounted, displayed, pageVars, builderVars>>

Throw(w, e) ==
    Settle(w, [writes[w] EXCEPT !.pc = "failed", !.error = Some(e)], FALSE)

Step(w, rec) ==
    /\ writes' = [writes EXCEPT ![w] = rec]
    /\ UNCHANGED <<session, previous, ledger, query, fetch, mounted, displayed, pageVars, builderVars>>

DataMissingCreateOnly(op, req) == op = "create" /\ ~IsDefined(req)
\* `if (!data)`: only create and update take DeploymentData | null.
DataMissing(op, req) == op # "remove" /\ ~IsDefined(req)
CreatorNeverMissing(creator) == FALSE
\* `if (!creator)`
CreatorMissing(creator) == creator = ""

Settled == {"done", "failed"}
InFlight(w) == writes[w].pc \notin Settled \cup {"idle"}

\* mutate(variables): mutation w starts and mutationFn runs up to its
\* first await.
Mutate(w, op, req) ==
    /\ writes[w].pc = "idle"
    /\ op = "remove" => IsDefined(req) /\ ~IsDefined(Val(req).file)
    /\ LET rec == [InitWrite EXCEPT !.op = op, !.data = req,
                                    !.cached = IsDefined(query.data)] IN
       IF DataMissing(op, req)
       THEN Settle(w, [rec EXCEPT !.pc = "failed",
                                  !.error = Some(EmptyDataError)], FALSE)
       ELSE Step(w, [rec EXCEPT !.pc = "getAddress"])

\* `const creator = await store.getAddress()` returns.
WriteGetAddress(w) ==
    /\ writes[w].pc = "getAddress"
    /\ LET rec == [writes[w] EXCEPT !.creator = Some(getAddress)] IN
       IF CreatorMissing(getAddress)
       THEN Settle(w, [rec EXCEPT !.pc = "failed",
                                  !.error = Some(EmptyCreatorError)], FALSE)
       ELSE Step(w, [rec EXCEPT !.pc = "getPrivateKey"])

\* `await store.getPrivateKey()` returns; createGhostcloudRpcClient builds
\* the wallet from the key and asks for the signing client.
WriteGetPrivateKey(w) ==
    /\ writes[w].pc = "getPrivateKey"
    /\ LET rec == [writes[w] EXCEPT !.key = Some(getPrivateKey)] IN
       IF getPrivateKey = <<>>
       THEN Settle(w, [rec EXCEPT !.pc = "failed",
                                  !.error = Some(SignerError)], FALSE)
       ELSE Step(w, [rec EXCEPT !.pc = "connect", !.conns = @ + 1])

\* getSigningGhostcloudClient resolved; the message is built, which awaits
\* fileToArrayBuffer when the form carries a file.
WriteConnected(w) ==
    /\ writes[w].pc = "connect"
    /\ LET d == Val(writes[w].data) IN
       IF IsDefined(d.file) /\ writes[w].op # "remove"
       THEN Step(w, [writes[w] EXCEPT !.pc = "readFile"])
       ELSE Step(w, [writes[w] EXCEPT
                 !.pc = "sign",
                 !.msgs = <<BuildMsg(writes[w].op, d, Val(writes[w].creator))>>])

WriteConnectFailed(w) ==
    /\ writes[w].pc = "connect"
    /\ Throw(w, ConnectError)

WriteFileRead(w) ==
    /\ writes[w].pc = "readFile"
    /\ Step(w, [writes[w] EXCEPT
              !.pc = "sign",
              !.msgs = <<BuildMsg(writes[w].op, Val(writes[w].data),
                                  Val(writes[w].creator))>>])

WriteFileFailed(w) ==
    /\ writes[w].pc = "readFile"
    /\ Throw(w, FileError)

SignerHasAnyAccount(key, signerAddress) == TRUE
\* The signing client looks signerAddress up among the accounts of the
\* wallet; a wallet built from one key has the one account of that key.
SignerHasAccount(key, signerAddress) == AddressOfKey(key) = signerAddress

\* client.signAndBroadcast(creator, [msg], fee, memo): the signing client
\* looks the signer address up among the wallet's accounts and throws when
\* it is not there; otherwise the signed transaction is sent.
WriteSign(w) ==
    /\ writes[w].pc = "sign"
    /\ IF ~SignerHasAccount(Val(writes[w].key), Val(writes[w].creator))
       THEN Throw(w, AccountError)
       ELSE Step(w, [writes[w] EXCEPT !.pc = "broadcast", !.bcasts = @ + 1])

\* The transaction never reaches the ledger.
WriteBroadcastFailed(w) ==
    /\ writes[w].pc = "broadcast"
    /\ Throw(w, BroadcastError)

\* The ledger executes the transaction and answers.  The hash it assigns
\* is modelled by the version of the creator's deployments it produced.
LedgerDeliver(w) ==
    /\ writes[w].pc = "broadcast"
    /\ LET m == writes[w].msgs[1]
           a == Val(writes[w].creator)
           cur == ledger[a]
       IN \/ /\ Applicable(m, cur.items)
             /\ ledger' = [ledger EXCEPT ![a] =
                              [items |-> Applied(m, cur.items),
                               ver |-> cur.ver + 1]]
             /\ writes' = [writes EXCEPT
                   ![w].pc = "responded",
                   ![w].response = Some([code |-> 0, rawLog |-> "",
                                         hash |-> cur.ver + 1])]
          \/ \E r \in Rejections(m, cur.items) :
                /\ ledger' = ledger
                /\ writes' = [writes EXCEPT ![w].pc = "responded",
                                            ![w].response = Some(r)]
    /\ UNCHANGED <<session, previous, query, fetch, mounted, displayed, pageVars, builderVars>>

\* The answer is lost on its way back (timeout).
WriteResponseLost(w) ==
    /\ writes[w].pc = "responded"
    /\ Throw(w, BroadcastError)

\* `const response = await client.signAndBroadcast(...)` returns:
\* lines 90-96, then the mutation's callbacks.
WriteResponse(w) ==
    /\ writes[w].pc = "responded"
    /\ LET response == Val(writes[w].response) IN
       IF Truthy(response.code)
       THEN Throw(w, RejectedError(writes[w].op, response))
       ELSE Settle(w, [writes[w] EXCEPT !.pc = "done",
                                        !.result = Some(response)], TRUE)

(* ------------------------------- the query ---------------------------- *)
FilterFirstAddress(address) == [field |-> "CREATOR", operator |-> "EQUAL",
                                value |-> "a1"]
FilterNotEqual(address) == [field |-> "CREATOR", operator |-> "NOT_EQUAL",
                            value |-> address]
\* lines 234-241: one filter, CREATOR EQUAL the address just resolved.
Filter(address) == [field |-> "CREATOR", operator |-> "EQUAL",
                    value |-> address]
QueryMetasRequest(address) == [filters |-> <<Filter(address)>>]

\* The ledger's answer to a metas request: the deployments matching every
\* filter.  `ver` is not part of the response; it records which state of
\* the ledger the answer was read from.
QueryMetasResponse(request) ==
    LET a == request.filters[1].value IN
    [meta |-> ledger[a].items, filters |-> request.filters,
     ver |-> ledger[a].ver]

\* The reducer's 'success' action: the data replaces the entry's data and
\* the entry is no longer invalidated.
QueryAfterSuccess(q, data) ==
    [q EXCEPT !.data = data, !.updated = TRUE, !.isInvalidated = FALSE,
              !.status = "success", !.error = Undefined]

\* The reducer's 'error' action: data and isInvalidated stay as they are.
QueryAfterError(q, e) == [q EXCEPT !.status = "error", !.error = Some(e)]

ShouldRetryOnceMore(failureCount) == failureCount < DefaultQueryRetry + 1
\* The retryer: a failed run of the queryFn is run again while fewer than
\* `retry` failures were counted.
ShouldRetry(failureCount) == failureCount < DefaultQueryRetry

FetchSucceed(data) ==
    /\ query' = QueryAfterSuccess(query, data)
    /\ fetch' = InitFetch
    /\ UNCHANGED <<session, previous, ledger, writes, mounted, displayed, pageVars, builderVars>>

\* A run of `list` threw.  Either it is retried after a delay, or the
\* fetch fails and onError reports it (lines 249-251).
FetchRunFailed(e) ==
    IF ShouldRetry(fetch.failureCount)
    THEN /\ fetch' = [fetch EXCEPT !.pc = "retryWait",
                                   !.failureCount = @ + 1]
         /\ UNCHANGED <<session, previous, ledger, writes, query, mounted, displayed,
                        pageVars, builderVars>>
    ELSE /\ fetch' = InitFetch
         /\ query' = QueryAfterError(query, e)
         /\ displayed' = Some([title |-> "Failed to fetch deployments",
                               error |-> e])
         /\ UNCHANGED <<session, previous, ledger, writes, mounted, pageVars, builderVars>>

\* `const address = await store.getAddress()` returns; `if (address)`.
FetchGetAddress ==
    /\ fetch.pc = "getAddress"
    /\ IF getAddress # ""
       THEN /\ fetch' = [fetch EXCEPT
                           !.pc = "connect",
                           !.request = Some(QueryMetasRequest(getAddress))]
            /\ UNCHANGED <<session, previous, ledger, writes, query, mounted,
                           displayed, pageVars, builderVars>>
       ELSE FetchSucceed(Undefined)

\* createRPCQueryClient resolved; the request goes out.
FetchConnected ==
    /\ fetch.pc = "connect"
    /\ fetch' = [fetch EXCEPT !.pc = "query", !.queries = @ + 1]
    /\ UNCHANGED <<session, previous, ledger, writes, query, mounted, displayed,
                   pageVars, builderVars>>

FetchConnectFailed ==
    /\ fetch.pc = "connect"
    /\ FetchRunFailed(ConnectError)

\* The ledger evaluates the query.
LedgerAnswer ==
    /\ fetch.pc = "query"
    /\ fetch' = [fetch EXCEPT
                   !.pc = "answered",
                   !.result = Some(QueryMetasResponse(Val(fetch.request)))]
    /\ UNCHANGED <<session, previous, ledger, writes, query, mounted, displayed,
                   pageVars, builderVars>>

\* The query or its answer is lost.
FetchQueryFailed ==
    /\ fetch.pc \in {"query", "answered"}
    /\ FetchRunFailed(QueryError)

\* `return await client.ghostcloud.ghostcloud.metas(request)`.
FetchResolved ==
    /\ fetch.pc = "answered"
    /\ FetchSucceed(fetch.result)

\* The retry delay elapsed: `list` runs again.
FetchRetry ==
    /\ fetch.pc = "retryWait"
    /\ fetch' = [fetch EXCEPT !.pc = "getAddress", !.request = Undefined,
                              !.result = Undefined]
    /\ UNCHANGED <<session, previous, ledger, writes, query, mounted, displayed,
                   pageVars, builderVars>>

(* ------------------------- dashboard and session ----------------------- *)
\* The Dashboard mounts: useFetchMetas subscribes to "metas"; the entry is
\* created if absent and, being stale (staleTime 0), fetched.
Mount ==
    /\ ~mounted
    /\ mounted' = TRUE
    /\ query' = QueryAfterFetch([query EXCEPT !.exists = TRUE], fetch)
    /\ fetch' = FetchAfterFetch(fetch)
    /\ UNCHANGED <<session, previous, ledger, writes, displayed, pageVars, builderVars>>

\* The window regains focus while the Dashboard is mounted: stale data is
\* refetched.
WindowFocus ==
    /\ mounted
    /\ ~IsFetching
    /\ query' = QueryAfterFetch(query, fetch)
    /\ fetch' = FetchAfterFetch(fetch)
    /\ UNCHANGED <<session, previous, ledger, writes, mounted, displayed, pageVars, builderVars>>

SignIn(a) ==
    /\ session = ""
    /\ session' = a
    /\ UNCHANGED <<previous, ledger, writes, query, fetch, mounted, displayed, pageVars, builderVars>>

\* Sign-out tears the session down: key material and the cache.
SignOut ==
    /\ session # ""
    /\ session' = ""
    /\ previous' = session
    /\ query' = InitQuery
    /\ fetch' = InitFetch
    /\ mounted' = FALSE
    /\ UNCHANGED <<ledger, writes, displayed, pageVars, builderVars>>

(* ------------------------------ pagination ----------------------------- *)
\* The fetched set is paginated locally: page size is a client-side
\* constant and the page shown is a function of the fetched set and the
\* requested index.
PageSize == 2

PageCount(total) == (total + PageSize - 1) \div PageSize
pageCount == PageCount(pageItems)
currentPage == page

\* Positions (1..total) of the items on page p.
ItemsOnPage(p, total) ==
    {i \in 1..total : (p - 1) * PageSize < i /\ i <= p * PageSize}

\* Requests outside [1, count] are clamped.
ClampPage(p, count) ==
    IF count = 0 \/ p < 1 THEN 1 ELSE IF p > count THEN count ELSE p

handlePageClickUnclamped(dir) ==
    IF dir = "next" THEN currentPage + 1 ELSE currentPage - 1
\* handlePageClick("next" | "prev")
handlePageClick(dir) ==
    ClampPage(IF dir = "next" THEN currentPage + 1 ELSE currentPage - 1,
              pageCount)

\* Dashboard, lines 156-176: the navigation is rendered for more than one
\* page, and each arrow is disabled at its bound.
NavShown == pageCount > 1
PrevDisabled == currentPage = 1
NextDisabled == currentPage = pageCount

Navigated(op, arg, to) ==
    /\ page' = to
    /\ pageLog' = Some([op |-> op, arg |-> arg, from |-> page,
                        total |-> pageItems, to |-> to,
                        content |-> ItemsOnPage(to, pageItems),
                        error |-> FALSE])
    /\ UNCHANGED <<pageItems, coreVars, builderVars>>

ClickPrev ==
    /\ NavShown /\ ~PrevDisabled
    /\ Navigated("prev", 0, handlePageClick("prev"))

ClickNext ==
    /\ NavShown /\ ~NextDisabled
    /\ Navigated("next", 0, handlePageClick("next"))

\* handlePageClick called at a bound (the arrows are not the only callers).
NavigateAtBound(dir) ==
    /\ pageCount > 0
    /\ IF dir = "next" THEN currentPage = pageCount ELSE currentPage = 1
    /\ Navigated(dir, 0, handlePageClick(dir))

\* listDeployments(address, n)
ListPage(n) == Navigated("request", n, ClampPage(n, pageCount))

\* A refetch replaced the fetched set.
Refetched(total) ==
    /\ total # pageItems
    /\ pageItems' = total
    /\ page' = ClampPage(page, PageCount(total))
    /\ UNCHANGED <<pageLog, coreVars, builderVars>>

(* ------------------------- calls of the builders ---------------------- *)
\* Arguments the builders and createUrl are called with.
FormNames == {"site1", "myapp"}
FormDescriptions == {"", "desc"}
FormDomains == {"dom", "example.com"}
FormFiles == {Undefined, Some(File(<<>>)), Some(File(FileBytes))}
Creators == {"", "a1", "cosmos1abc..."}

Forms == {[name |-> n, description |-> d, domain |-> m, memo |-> "memo",
           file |-> f] :
             n \in FormNames, d \in FormDescriptions, m \in FormDomains,
             f \in FormFiles}

Returned(fn, msg, url) == Some([fn |-> fn, msg |-> msg, url |-> url])

CallCreateDeploymentMsg ==
    /\ built' = Returned("createDeploymentMsg",
                         Some(createDeploymentMsg(args.data, args.creator)), "")
    /\ UNCHANGED <<args, coreVars, pageVars>>

CallUpdateDeploymentMsg ==
    /\ built' = Returned("updateDeploymentMsg",
                         Some(updateDeploymentMsg(args.data, args.creator)), "")
    /\ UNCHANGED <<args, coreVars, pageVars>>

CallRemoveDeploymentMsg ==
    /\ built' = Returned("removeDeploymentMsg",
                         Some(removeDeploymentMsg(args.data.name, args.creator)),
                         "")
    /\ UNCHANGED <<args, coreVars, pageVars>>

\* Dashboard, line 122: createUrl(meta.name, address).
CallCreateUrl ==
    /\ built' = Returned("createUrl", Undefined,
                         createUrl(args.data.name, args.creator))
    /\ UNCHANGED <<args, coreVars, pageVars>>

(* ---------------------------- specifications -------------------------- *)
\* Spec: one address, one mutation at a time, every failure the
\* collaborators can produce.
Next ==
    \/ SignIn("a1")
    \/ SignOut
    \/ Mount
    \/ WindowFocus
    \/ \E w \in Serial, op \in Ops, req \in Requests : Mutate(w, op, req)
    \/ \E w \in Serial : WriteGetAddress(w)
    \/ \E w \in Serial : WriteGetPrivateKey(w)
    \/ \E w \in Serial : WriteConnected(w)
    \/ \E w \in Serial : WriteConnectFailed(w)
    \/ \E w \in Serial : WriteFileRead(w)
    \/ \E w \in Serial : WriteFileFailed(w)
    \/ \E w \in Serial : WriteSign(w)
    \/ \E w \in Serial : WriteBroadcastFailed(w)
    \/ \E w \in Serial : LedgerDeliver(w)
    \/ \E w \in Serial : WriteResponseLost(w)
    \/ \E w \in Serial : WriteResponse(w)
    \/ FetchGetAddress
    \/ FetchConnected
    \/ FetchConnectFailed
    \/ LedgerAnswer
    \/ FetchQueryFailed
    \/ FetchResolved
    \/ FetchRetry

Spec == Init /\ [][Next]_vars

\* SpecRace: two mutations of one session overlap; the second starts while
\* the first is in flight.  The network does not fail here.
RaceMutate(w, op, req) ==
    /\ \A v \in WriteIds : v < w => InFlight(v)
    /\ IsDefined(req) /\ ~IsDefined(Val(req).file)
    /\ Mutate(w, op, req)

NextRace ==
    \/ SignIn("a1")
    \/ Mount
    \/ \E w \in WriteIds, op \in Ops, req \in Requests : RaceMutate(w, op, req)
    \/ \E w \in WriteIds : WriteGetAddress(w)
    \/ \E w \in WriteIds : WriteGetPrivateKey(w)
    \/ \E w \in WriteIds : WriteConnected(w)
    \/ \E w \in WriteIds : WriteSign(w)
    \/ \E w \in WriteIds : LedgerDeliver(w)
    \/ \E w \in WriteIds : WriteResponse(w)
    \/ FetchGetAddress
    \/ FetchConnected
    \/ LedgerAnswer
    \/ FetchResolved

SpecRace == Init /\ [][NextRace]_vars

\* SpecSession: sessions of two addresses follow each other while the
\* Dashboard lists; no writes.
NextSession ==
    \/ \E a \in Addrs : SignIn(a)
    \/ SignOut
    \/ Mount
    \/ WindowFocus
    \/ FetchGetAddress
    \/ FetchConnected
    \/ FetchConnectFailed
    \/ LedgerAnswer
    \/ FetchQueryFailed
    \/ FetchResolved
    \/ FetchRetry

SpecSession == InitSession /\ [][NextSession]_vars

\* SpecPage: navigation over fetched sets of every size up to MaxItems.
NextPage ==
    \/ ClickPrev
    \/ ClickNext
    \/ \E dir \in {"next", "prev"} : NavigateAtBound(dir)
    \/ \E n \in (0 - 2)..(PageCount(MaxItems) + 2) : ListPage(n)
    \/ \E total \in 0..MaxItems : Refetched(total)

SpecPage == Init /\ [][NextPage]_vars

\* SpecSwitch: the session changes (sign-out, sign-in of either address)
\* while a write is suspended at one of its awaits.  The network does not
\* fail here.
NextSwitch ==
    \/ \E a \in Addrs : SignIn(a)
    \/ SignOut
    \/ \E w \in Serial, op \in Ops, req \in Requests : RaceMutate(w, op, req)
    \/ \E w \in Serial : WriteGetAddress(w)
    \/ \E w \in Serial : WriteGetPrivateKey(w)
    \/ \E w \in Serial : WriteConnected(w)
    \/ \E w \in Serial : WriteSign(w)
    \/ \E w \in Serial : LedgerDeliver(w)
    \/ \E w \in Serial : WriteResponse(w)

SpecSwitch == InitSession /\ [][NextSwitch]_vars

\* SpecBuild: the message builders and createUrl applied to every form and
\* creator.
InitBuild ==
    /\ session = ""
    /\ previous = ""
    /\ ledger = [a \in Addrs |-> [items |-> {}, ver |-> 0]]
    /\ writes = [w \in WriteIds |-> InitWrite]
    /\ query = InitQuery
    /\ fetch = InitFetch
    /\ mounted = FALSE
    /\ displayed = Undefined
    /\ InitPageVars
    /\ args \in [data : Forms, creator : Creators]
    /\ built = Undefined

NextBuild ==
    \/ CallCreateDeploymentMsg
    \/ CallUpdateDeploymentMsg
    \/ CallRemoveDeploymentMsg
    \/ CallCreateUrl

SpecBuild == InitBuild /\ [][NextBuild]_vars

(* -------------------------------- claims ------------------------------ *)
\* mutationFn returned the response / threw.
Succeeded(w) == IsDefined(writes[w].result)
Threw(w) == IsDefined(writes[w].error)
\* The error was built from a remote response.
Rejected(w) == Threw(w) /\ Val(writes[w].error).detail # <<>>
\* No fetch is in flight and the entry counts as valid.
CacheValid == query.exists /\ ~IsFetching /\ ~query.isInvalidated

\* C1: a write invalidates "metas" exactly once when it succeeded and never
\* when it failed, whatever the stage it failed at; a write still in flight
\* has not invalidated anything.
C1_InvalidatedIffSucceeded ==
    \A w \in WriteIds :
        /\ writes[w].pc \in Settled =>
              /\ Succeeded(w) # Threw(w)
              /\ writes[w].invs = IF Succeeded(w) THEN 1 ELSE 0
        /\ writes[w].pc \notin Settled => writes[w].invs = 0

C1_Witness ==
    \E w \in WriteIds :
        writes[w].pc = "done" /\ writes[w].invs = 1 /\ query.isInvalidated

\* C2: a write that resolved an empty creator address has failed with
\* "Creator address is empty." without reading the key, opening a signing
\* connection, broadcasting or invalidating the cache.
C2_EmptyCreatorFailsOffline ==
    \A w \in WriteIds :
        writes[w].creator = Some("") =>
            /\ writes[w].pc = "failed"
            /\ writes[w].error = Some(EmptyCreatorError)
            /\ writes[w].key = Undefined
            /\ writes[w].conns = 0
            /\ writes[w].bcasts = 0
            /\ writes[w].msgs = <<>>
            /\ writes[w].invs = 0

C2_Witness ==
    \E w \in WriteIds :
        writes[w].creator = Some("") /\ writes[w].op = "remove"

\* The response of write w reached the client.
Received(w) ==
    /\ writes[w].pc \in Settled
    /\ IsDefined(writes[w].response)
    /\ writes[w].error # Some(BroadcastError)

\* C3: the outcome follows the response code: non-zero fails with an error
\* carrying exactly that code and rawLog, zero returns the response
\* unchanged, and nothing else counts as success.
C3_OutcomeFollowsCode ==
    \A w \in WriteIds :
        /\ Received(w) =>
              LET r == Val(writes[w].response) IN
              IF r.code # 0
              THEN /\ writes[w].pc = "failed"
                   /\ Val(writes[w].error).detail =
                          <<[code |-> r.code, rawLog |-> r.rawLog]>>
                   /\ ~Succeeded(w)
              ELSE /\ writes[w].pc = "done"
                   /\ writes[w].result = writes[w].response
                   /\ ~Threw(w)
        /\ Succeeded(w) =>
              IsDefined(writes[w].response) /\ Val(writes[w].response).code = 0

C3_Witness ==
    \E w \in WriteIds :
        /\ Received(w)
        /\ Val(writes[w].response).code = 13
        /\ Rejected(w)

\* Write w is answered with a rejection in this step.
RejectedNow(w) ==
    /\ writes[w].pc = "responded"
    /\ Val(writes[w].response).code # 0
    /\ writes'[w].pc = "failed"
    /\ Val(writes'[w].error).detail # <<>>

\* C4: the step in which a remove is answered with a rejected transaction
\* does not invalidate "metas" and starts no fetch, so the list served
\* from the cache still holds every deployment it held before.
C4_RejectedRemoveKeepsCache ==
    [][\A w \in WriteIds :
          writes[w].op = "remove" /\ RejectedNow(w) =>
              /\ query' = query
              /\ fetch' = fetch
              /\ writes'[w].invs = 0]_vars

C4_Witness ==
    \E w \in WriteIds :
        /\ writes[w].op = "remove"
        /\ Rejected(w)
        /\ CacheValid
        /\ IsDefined(query.data)
        /\ Val(writes[w].data).name \in Val(query.data).meta

\* C5: once a write that started on a populated cache has succeeded, the
\* entry is not valid while holding a set read from the ledger before that
\* write committed: the list goes back to the ledger and the pre-write set
\* is not served as current again.
C5_NoStaleSetAfterWrite ==
    \A w \in WriteIds :
        (Succeeded(w) /\ writes[w].cached /\ CacheValid
                      /\ IsDefined(query.data)) =>
            Val(query.data).ver >= Val(writes[w].result).hash

\* Write w fails in this step before any response reached the client.
FailedBeforeResponse(w) ==
    /\ writes[w].pc \in {"getPrivateKey", "connect", "readFile", "sign",
                          "broadcast", "responded"}
    /\ writes'[w].pc = "failed"
    /\ Val(writes'[w].error).detail = <<>>

\* C6: a write failing at the connection, message-building or
\* signing/broadcasting stage changes nothing but its own outcome: the
\* cache entry, its validity flag, the fetch and all other local state stay.
C6_FailureLeavesNoTrace ==
    [][\A w \in WriteIds :
          FailedBeforeResponse(w) =>
              /\ query' = query
              /\ fetch' = fetch
              /\ session' = session
              /\ mounted' = mounted
              /\ displayed' = displayed
              /\ pageVars' = pageVars
              /\ writes'[w].invs = writes[w].invs
              /\ \A v \in WriteIds \ {w} : writes'[v] = writes[v]]_vars

C6_Witness ==
    \E w \in WriteIds :
        /\ writes[w].pc = "failed"
        /\ writes[w].error \in {Some(ConnectError), Some(FileError),
                                 Some(BroadcastError)}
        /\ CacheValid
        /\ IsDefined(query.data)

\* C7: when two overlapping writes, started on a populated cache, have both
\* succeeded and nothing is in flight any more, the entry is not valid
\* while holding a set read from the ledger before the later of them
\* committed.
C7_RaceConverges ==
    ((\A w \in WriteIds : Succeeded(w) /\ writes[w].cached)
        /\ CacheValid /\ IsDefined(query.data))
        => \A w \in WriteIds :
              Val(query.data).ver >= Val(writes[w].result).hash

FetchFailsNow ==
    /\ IsFetching
    /\ fetch'.pc = "idle"
    /\ query'.status = "error"

\* C9 as stated: nothing is retried; a failed write broadcast at most once
\* and a failed list ran once, with one remote query.
C9_NothingRetried ==
    [][/\ \A w \in WriteIds : writes'[w].bcasts <= 1
       /\ FetchFailsNow => fetch.failureCount = 0 /\ fetch.queries <= 1]_vars

\* C9 amended: a write is never retried (at most one broadcast); a failing
\* list is run again by the query cache, at most DefaultQueryRetry times,
\* so at most DefaultQueryRetry + 1 remote queries precede the report.
C9_RetryOnlyReads ==
    [][/\ \A w \in WriteIds :
             /\ writes'[w].bcasts <= DefaultMutationRetry + 1
             /\ writes'[w].conns <= DefaultMutationRetry + 1
       /\ fetch'.failureCount <= DefaultQueryRetry
       /\ fetch'.queries <= DefaultQueryRetry + 1
       /\ FetchFailsNow => fetch.failureCount = DefaultQueryRetry]_vars

C9_Witness ==
    /\ fetch.failureCount = DefaultQueryRetry
    /\ fetch.queries = DefaultQueryRetry + 1
    /\ \E w \in WriteIds : writes[w].pc = "failed" /\ writes[w].bcasts = 1

\* The page an index stands for once clamped to [1, count].
Expected(n, count) ==
    IF n < 1 THEN 1 ELSE IF n > count THEN count ELSE n

SucceedsNow(w) == writes[w].pc = "responded" /\ writes'[w].pc = "done"
\* A fetch completes successfully in this step.
FetchCompletesNow ==
    /\ IsFetching
    /\ fetch'.pc = "idle"
    /\ query'.status = "success"
    /\ ~query'.isInvalidated
\* The session is torn down in this step (sign-out).
TornDownNow == session # "" /\ session' = ""

\* C11: the step in which a successful write invalidates "metas" marks the
\* entry invalidated and leaves its data as it was; afterwards the data
\* changes only in a step that completes a fetch, and then it becomes what
\* that fetch returned (sign-out, which drops the whole cache, aside).
C11_InvalidatedNotCleared ==
    [][/\ \A w \in WriteIds :
             SucceedsNow(w) =>
                 /\ query'.data = query.data
                 /\ query'.exists = query.exists
                 /\ query.exists => query'.isInvalidated
       /\ (query'.data # query.data /\ ~TornDownNow) =>
             /\ FetchCompletesNow
             /\ query'.data = IF fetch.pc = "answered" THEN fetch.result
                              ELSE Undefined]_vars

C11_Witness ==
    \E w \in WriteIds :
        /\ Succeeded(w)
        /\ query.isInvalidated
        /\ IsFetching
        /\ IsDefined(query.data)
        /\ Val(query.data).ver < Val(writes[w].result).hash

\* Failures of the transport: nothing was obtained from the ledger.
TransportErrors == {ConnectError, BroadcastError, QueryError}

\* C12: an error built from a ledger rejection carries the code and rawLog
\* of the response and is no transport error; a transport error carries
\* neither; every rejection that reached the client is reported as such;
\* and a failed list is reported (through displayError) as a transport
\* error.
C12_TransportOrRejection ==
    /\ \A w \in WriteIds :
          Threw(w) =>
             LET e == Val(writes[w].error) IN
             /\ e \in TransportErrors => e.detail = <<>>
             /\ e.detail # <<>> =>
                   /\ e \notin TransportErrors
                   /\ IsDefined(writes[w].response)
                   /\ Val(writes[w].response).code # 0
                   /\ e.detail = <<[code |-> Val(writes[w].response).code,
                                    rawLog |-> Val(writes[w].response).rawLog]>>
                   /\ \A t \in TransportErrors : t.msg # e.msg
             /\ (Received(w) /\ Val(writes[w].response).code # 0) =>
                   e.detail # <<>>
    /\ query.status = "error" =>
          /\ IsDefined(displayed)
          /\ query.error = Some(Val(displayed).error)
    /\ IsDefined(displayed) =>
          /\ Val(displayed).error \in TransportErrors
          /\ Val(displayed).error.detail = <<>>

C12_Witness ==
    /\ \E w \in WriteIds :
          /\ Rejected(w)
          /\ writes[w].op = "remove"
          /\ Val(writes[w].response).code = 5
    /\ IsDefined(displayed)
    /\ Val(displayed).error = ConnectError

\* The message returned by the last builder call.
BuiltMsg == Val(Val(built).msg)
BuiltBy(fns) == IsDefined(built) /\ Val(built).fn \in fns
Builders == {"createDeploymentMsg", "updateDeploymentMsg"}

\* C13: the message built by createDeploymentMsg or updateDeploymentMsg
\* carries a meta whose name, description and domain are those of the
\* request and whose creator is the creator given, and has the type of the
\* operation.
C13_MetaLossless ==
    BuiltBy(Builders) =>
        /\ IsDefined(BuiltMsg.value.meta)
        /\ Val(BuiltMsg.value.meta).name = args.data.name
        /\ Val(BuiltMsg.value.meta).description = args.data.description
        /\ Val(BuiltMsg.value.meta).domain = args.data.domain
        /\ Val(BuiltMsg.value.meta).creator = args.creator
        /\ DOMAIN Val(BuiltMsg.value.meta) =
               {"creator", "name", "description", "domain"}
        /\ BuiltMsg.typeUrl = IF Val(built).fn = "createDeploymentMsg"
                              THEN "MsgCreateDeployment"
                              ELSE "MsgUpdateDeployment"

C13_Witness ==
    /\ BuiltBy({"updateDeploymentMsg"})
    /\ args.creator = "cosmos1abc..."
    /\ args.data.description = ""
    /\ args.data.domain = "example.com"
    /\ Val(BuiltMsg.value.meta).domain = "example.com"

\* C14: the message built by createDeploymentMsg or updateDeploymentMsg has
\* a payload exactly when the request has a file; the payload is then a Zip
\* archive whose content is the file's bytes, and without a file the
\* payload field is undefined.
C14_PayloadIffFile ==
    BuiltBy(Builders) =>
        /\ IsDefined(BuiltMsg.value.payload) <=> IsDefined(args.data.file)
        /\ IsDefined(args.data.file) =>
              /\ Val(BuiltMsg.value.payload).archive.type = "Zip"
              /\ Val(BuiltMsg.value.payload).archive.content =
                     Val(args.data.file).bytes
        /\ ~IsDefined(args.data.file) => BuiltMsg.value.payload = Undefined

C14_Witness ==
    /\ BuiltBy({"createDeploymentMsg"})
    /\ IsDefined(args.data.file)
    /\ Val(BuiltMsg.value.payload).archive.content = <<80, 75>>

\* C15: the URL createUrl returns for a name and an address is the scheme,
\* "://", the name, "-", the address, "." and the domain, in this order;
\* for "myapp" and "cosmos1abc..." it is
\* "https://myapp-cosmos1abc....example.com".
C15_UrlComposed ==
    BuiltBy({"createUrl"}) =>
        LET url == Val(built).url
            head == GHOSTCLOUD_URL_SCHEME \o "://" \o args.data.name
            tail == args.creator \o "." \o GHOSTCLOUD_URL_DOMAIN
        IN /\ url = head \o "-" \o tail
           /\ Len(url) = Len(head) + 1 + Len(tail)
           /\ (args.data.name = "myapp" /\ args.creator = "cosmos1abc...") =>
                 url = "https://myapp-cosmos1abc....example.com"

C15_Witness ==
    /\ BuiltBy({"createUrl"})
    /\ args.data.name = "myapp"
    /\ args.creator = "cosmos1abc..."
    /\ Val(built).url = "https://myapp-cosmos1abc....example.com"

\* C16: a create or update called with a null request has failed with
\* "Deployment data is empty." without resolving the creator (so whether
\* the session has an address plays no role), reading the key, opening a
\* signing connection, building a message, broadcasting or invalidating.
C16_NullRequestFailsFirst ==
    \A w \in WriteIds :
        (writes[w].op \in {"create", "update"} /\ writes[w].data = Undefined) =>
            /\ writes[w].pc = "failed"
            /\ writes[w].error = Some(EmptyDataError)
            /\ writes[w].creator = Undefined
            /\ writes[w].key = Undefined
            /\ writes[w].conns = 0
            /\ writes[w].msgs = <<>>
            /\ writes[w].bcasts = 0
            /\ writes[w].response = Undefined
            /\ writes[w].invs = 0

C16_Witness ==
    \E w \in WriteIds :
        /\ writes[w].op = "update"
        /\ writes[w].data = Undefined
        /\ writes[w].error = Some(EmptyDataError)
        /\ session = ""
        /\ previous = ""

\* The message type each operation submits.
TypeUrlOf(op) == CASE op = "create" -> "MsgCreateDeployment"
                   [] op = "update" -> "MsgUpdateDeployment"
                   [] OTHER         -> "MsgRemoveDeployment"
MsgCreator(m) == IF m.typeUrl = "MsgRemoveDeployment" THEN m.value.creator
                 ELSE Val(m.value.meta).creator

\* C17: a write opens at most one connection, builds at most one message
\* and broadcasts at most once; what it broadcasts is the single message of
\* its own operation, for its request and creator; each stage starts only
\* after the one before it: the connection after a non-empty creator was
\* resolved, the message after the connection, the broadcast after the
\* message, the response after the broadcast, and the invalidation after a
\* response with code 0 was received.
C17_OneMessageInOrder ==
    [][\A w \in WriteIds :
          LET a == writes[w]
              b == writes'[w]
          IN /\ b.conns <= 1 /\ Len(b.msgs) <= 1 /\ b.bcasts <= 1 /\ b.invs <= 1
             /\ b.bcasts = 1 =>
                   /\ Len(b.msgs) = 1
                   /\ b.msgs[1].typeUrl = TypeUrlOf(b.op)
                   /\ MsgName(b.msgs[1]) = Val(b.data).name
                   /\ MsgCreator(b.msgs[1]) = Val(b.creator)
             /\ b.conns > a.conns =>
                   /\ IsDefined(a.creator) /\ Val(a.creator) # ""
                   /\ a.msgs = <<>>
             /\ b.msgs # a.msgs => a.conns = 1 /\ a.bcasts = 0
             /\ b.bcasts > a.bcasts =>
                   Len(a.msgs) = 1 /\ ~IsDefined(a.response)
             /\ b.response # a.response => a.bcasts = 1 /\ a.invs = 0
             /\ b.invs > a.invs =>
                   /\ IsDefined(a.response)
                   /\ Val(a.response).code = 0
                   /\ b.pc = "done"]_vars

C17_Witness ==
    \E w \in WriteIds :
        /\ writes[w].op = "remove"
        /\ writes[w].pc = "done"
        /\ writes[w].conns = 1
        /\ writes[w].bcasts = 1
        /\ writes[w].invs = 1
        /\ writes[w].msgs[1].typeUrl = "MsgRemoveDeployment"

\* C18: a fetch that completes and marks the entry valid returns a set
\* that was not read from the ledger before a write that has already
\* succeeded committed: the answer to a query issued before the write's
\* invalidation does not become the valid entry.
C18_EarlierFetchNotMarkedValid ==
    [][\A w \in WriteIds :
          (Succeeded(w) /\ FetchCompletesNow /\ fetch.pc = "answered") =>
              Val(fetch.result).ver >= Val(writes[w].result).hash]_vars

\* The write holds a creator and a usable key.
HoldsBoth(w) ==
    /\ IsDefined(writes[w].creator)
    /\ IsDefined(writes[w].key)
    /\ Val(writes[w].key) # <<>>

ListResumesNow ==
    /\ fetch.pc = "getAddress"
    /\ fetch'.pc # "getAddress"
    /\ session' = session

\* C20: a run of `list` that finds no address ends the fetch at once as a
\* success with undefined data, without a remote query and without
\* reporting an error; a run that finds an address prepares one request
\* whose only filter is CREATOR EQUAL that address; a run issues at most
\* one remote query; and the set a fetch puts in the cache is the answer to
\* the request of that fetch.
C20_ListFilteredByAddress ==
    [][/\ ListResumesNow =>
             IF session = ""
             THEN /\ fetch'.pc = "idle"
                  /\ fetch.queries = 0
                  /\ query'.status = "success"
                  /\ query'.data = Undefined
                  /\ query'.error = Undefined
                  /\ displayed' = displayed
             ELSE /\ fetch'.pc = "connect"
                  /\ fetch'.queries = fetch.queries
                  /\ fetch'.request =
                        Some([filters |-> <<[field |-> "CREATOR",
                                             operator |-> "EQUAL",
                                             value |-> session]>>])
       /\ fetch'.queries > fetch.queries =>
             /\ fetch'.queries = fetch.queries + 1
             /\ IsDefined(fetch.request)
             /\ Len(Val(fetch.request).filters) = 1
       /\ fetch'.queries <= fetch'.failureCount + 1
       /\ (IsDefined(query'.data) /\ query'.data # query.data) =>
             /\ IsDefined(fetch.request)
             /\ Val(query'.data).filters = Val(fetch.request).filters]_vars

C20_Witness ==
    /\ session = ""
    /\ mounted
    /\ ~IsFetching
    /\ query.status = "success"
    /\ query.updated
    /\ query.data = Undefined
    /\ displayed = Undefined

====
